---- MODULE Spec2Model ----
(***************************************************************************)
(* Model of the Sonara audio analyzer (scripts/analyze_audio.py and        *)
(* scripts/reference_signals.py).                                          *)
(*                                                                         *)
(* Numeric conventions                                                     *)
(*  - A frequency is held as an integer numerator over the denominator     *)
(*    FFT_SIZE: bin k at sample rate sr is k*sr/FFT_SIZE Hz and is stored   *)
(*    as k*sr.  FFT_SIZE is a power of two, so the float64 quotient the     *)
(*    code computes is exact and comparisons on numerators agree with the   *)
(*    code's comparisons on floats.                                         *)
(*  - Samples and dB magnitudes are integers.  The values an FFT, a         *)
(*    logarithm or an RMS average produces cannot be computed here; the     *)
(*    spectrum extractor and the smoother pick the magnitude profile from   *)
(*    the family Shapes (any profile of the right length is allowed).       *)
(*  - A Python dict is a record; None is the record None.                   *)
(***************************************************************************)
EXTENDS Integers, Sequences, FiniteSets, TLC

VARIABLES
    argv,              \* sys.argv
    pc,                \* position in main()
    steps,             \* history: pipeline steps completed, in order
    ref_manager,       \* reference_signals._ref_manager (module global)
    loads,             \* history: number of ReferenceSignalManager() constructions
    analyzer,          \* the FrequencyAnalyzer built by main()
    recorded_file,     \* main: sys.argv[1]
    signal_id,         \* main: sys.argv[2]
    output_file,       \* main: sys.argv[3] or None
    ref_data,          \* analyze_sweep_deconvolution: local
    recorded,          \* analyze_sweep_deconvolution: local (AudioAnalyzer.analyze: audio)
    sr,                \* analyze_sweep_deconvolution: local (AudioAnalyzer.analyze: sample_rate)
    impulse_response,  \* analyze_sweep_deconvolution: local
    impulse_windowed,  \* analyze_sweep_deconvolution: local
    freqs,             \* analyze_sweep_deconvolution: local, then main: frequencies
                       \* (AudioAnalyzer.analyze: frequencies)
    response_db,       \* analyze_sweep_deconvolution: local (spectrum output)
                       \* (AudioAnalyzer.analyze: magnitudes, calibrated)
    smooth_response,   \* analyze_sweep_deconvolution: local
    final_response,    \* analyze_sweep_deconvolution: local, then main: response_db
    result,            \* main: result dict
    stdout,            \* JSON objects printed on standard output
    out_file,          \* content of the output file
    exit_code,         \* process exit status, -1 while running
    call,              \* arguments of the function under test (function harnesses)
    ret                \* values the function under test has returned, in order

vars == <<argv, pc, steps, ref_manager, loads, analyzer, recorded_file, signal_id,
          output_file, ref_data, recorded, sr, impulse_response, impulse_windowed,
          freqs, response_db, smooth_response, final_response, result, stdout,
          out_file, exit_code, call, ret>>

----------------------------------------------------------------------------
(* Bounds of the model *)

MaxRecLen == 2      \* longest recording, in samples
MaxGrid == 3        \* longest frequency grid given to normalize_response
MaxDim == 18        \* largest room dimension, in half metres
MaxThreads == 2     \* number of concurrent callers
MaxImpulse == 4     \* longest impulse given to extract_impulse_window
MaxCalLen == 2      \* longest array given to apply_calibration

----------------------------------------------------------------------------
(* Program constants *)

FFT_SIZE == 32768           \* FrequencyAnalyzer.fft_size
REFERENCE_FREQ == 1000      \* FrequencyAnalyzer.reference_freq
SMOOTHING_DEN == 12         \* FrequencyAnalyzer.smoothing_fraction = 1/12
DOWNSAMPLE_TARGET == 800    \* main: len(frequencies) // 800
AUDIBLE_LO == 20            \* audible band, Hz
AUDIBLE_HI == 20000

None == [none |-> TRUE]
IsNone(x) == DOMAIN x = {"none"}

----------------------------------------------------------------------------
(* Generic helpers *)

Abs(x) == IF x < 0 THEN -x ELSE x
Max2(a, b) == IF a >= b THEN a ELSE b
Min2(a, b) == IF a <= b THEN a ELSE b
SetMin(S) == CHOOSE x \in S : \A y \in S : x <= y
SetMax(S) == CHOOSE x \in S : \A y \in S : x >= y

\* Python slice s[a:b] for 0 <= a, b <= len(s) (0-based, end exclusive)
Slice(s, a, b) == [i \in 1..Max2(0, b - a) |-> s[a + i]]

\* Python extended slice s[::step]
Stride(s, step) == [i \in 1..((Len(s) + step - 1) \div step) |-> s[(i - 1) * step + 1]]

\* the c-th components of a sequence of tuples
Column(s, c) == [i \in 1..Len(s) |-> s[i][c]]

\* all sequences over S of length lo..hi
SeqsOf(S, lo, hi) == UNION {[1..n -> S] : n \in lo..hi}

RECURSIVE SumTo(_, _)
SumTo(f, n) == IF n = 0 THEN 0 ELSE f[n] + SumTo(f, n - 1)

----------------------------------------------------------------------------
(* reference_signals.py *)

Catalogue == {"sine_sweep_20_20k"}      \* ReferenceSignalManager.signals keys

\* what the two reference wav files of the catalogue entry decode to: the
\* sweep and its inverse filter (the time-reversed sweep), at 44.1 kHz
RefSweep == <<1, 2>>
RefInverse == <<2, 1>>
RefSampleRate == 44100

\* One catalogue entry of fft_cache after a successful load.  The two cached
\* FFTs are opaque values.
CacheEntry(sweep, inverse, rate) ==
    [sweep_fft |-> "rfft", inverse_fft |-> "rfft",
     sweep_signal |-> sweep, inverse_signal |-> inverse, sample_rate |-> rate]

\* ReferenceSignalManager.__init__ + _load_cache: every catalogue entry is
\* either loaded or, when librosa.load raises, set to None.
Registries ==
    {[signals |-> Catalogue, fft_cache |-> c] :
        c \in [Catalogue -> {None} \cup
                 {CacheEntry(RefSweep, RefInverse, RefSampleRate)}]}

\* mutant: an unknown id falls back to a loaded default entry
M_get_signal_data(manager, id) ==
    IF id \in DOMAIN manager.fft_cache THEN manager.fft_cache[id]
    ELSE CacheEntry(<<1>>, <<1>>, RefSampleRate)

\* ReferenceSignalManager.get_signal_data: dict.get, None when the key is missing
get_signal_data(manager, id) ==
    IF id \in DOMAIN manager.fft_cache THEN manager.fft_cache[id] ELSE None

----------------------------------------------------------------------------
(* FrequencyAnalyzer: the pure steps *)

\* scipy.signal.fftconvolve(a, b, mode='full'): empty when either input is
\* empty, else the full linear convolution of length len(a)+len(b)-1.
fftconvolve(a, b) ==
    IF Len(a) = 0 \/ Len(b) = 0 THEN <<>>
    ELSE [n \in 1..(Len(a) + Len(b) - 1) |->
            SumTo([j \in 1..Len(a) |->
                     IF n - j + 1 \in 1..Len(b) THEN a[j] * b[n - j + 1] ELSE 0],
                  Len(a))]

deconvolve_signals(rec, inverse_filter) == fftconvolve(rec, inverse_filter)

\* np.argmax(np.abs(x)) / np.argmin(x): 0-based index of the first extremum.
\* Callers guard against the empty sequence, on which numpy raises.
ArgMaxAbs(x) ==
    LET m == SetMax({Abs(x[i]) : i \in 1..Len(x)})
    IN  SetMin({i \in 1..Len(x) : Abs(x[i]) = m}) - 1

ArgMin(x) ==
    LET m == SetMin({x[i] : i \in 1..Len(x)})
    IN  SetMin({i \in 1..Len(x) : x[i] = m}) - 1

\* int(0.1 * sample_rate), int(0.4 * sample_rate): truncation of the float
\* product, which for a non-negative integer rate is the integer quotient
\* mutant: 50 ms before the peak instead of 100 ms
M_PreSamples(sample_rate) == sample_rate \div 20

PreSamples(sample_rate) == sample_rate \div 10
PostSamples(sample_rate) == (4 * sample_rate) \div 10

\* FrequencyAnalyzer.extract_impulse_window (impulse non-empty)
extract_impulse_window(impulse, sample_rate) ==
    LET peak_idx == ArgMaxAbs(impulse)
        start == Max2(0, peak_idx - PreSamples(sample_rate))
        end == Min2(Len(impulse), peak_idx + PostSamples(sample_rate))
    IN  Slice(impulse, start, end)

\* np.fft.rfftfreq(n, 1/sample_rate): bins 0..n//2, bin k at k*sample_rate/n Hz,
\* held as the numerator k*sample_rate
rfftfreq(n, sample_rate) == [i \in 1..(n \div 2 + 1) |-> (i - 1) * sample_rate]

\* mutant: the upper edge of the band is not applied
M_Audible(f) == AUDIBLE_LO * FFT_SIZE <= f

\* (frequencies >= 20) & (frequencies <= 20000) on a numerator over FFT_SIZE
Audible(f) == AUDIBLE_LO * FFT_SIZE <= f /\ f <= AUDIBLE_HI * FFT_SIZE

\* magnitude profiles the FFT of a windowed impulse (or the smoother) may yield
Shapes == {"flat", "tilt"}
ShapeDb(shape, k) == IF shape = "flat" THEN -3 ELSE 12 - (k \div 1024)

\* FrequencyAnalyzer.impulse_to_frequency_response: the pairs <<f, dB>> of the
\* bins inside the audible band, in bin order
impulse_to_frequency_response(impulse, sample_rate, n_fft, shape) ==
    LET frequencies == rfftfreq(n_fft, sample_rate)
        bins == [i \in 1..Len(frequencies) |-> <<frequencies[i], ShapeDb(shape, i - 1)>>]
    IN  SelectSeq(bins, LAMBDA b : Audible(b[1]))

\* FrequencyAnalyzer.apply_fractional_octave_smoothing: same length as its
\* input; every band contains its centre bin, so each value is a band average
apply_fractional_octave_smoothing(frequencies, magnitude_db, shape) ==
    [i \in 1..Len(magnitude_db) |-> ShapeDb(shape, i - 1)]

\* response_db - ref_level, element-wise
SubtractLevel(resp, ref_level) == [i \in 1..Len(resp) |-> resp[i] - ref_level]

\* np.abs(frequencies - self.reference_freq), on numerators over FFT_SIZE
DistanceToReference(frequencies) ==
    [i \in 1..Len(frequencies) |-> Abs(frequencies[i] - REFERENCE_FREQ * FFT_SIZE)]

\* mutant: on a tie the last nearest bin is taken as the reference
M_normalize_response(frequencies, resp) ==
    LET d == DistanceToReference(frequencies)
        m == SetMin({d[i] : i \in 1..Len(d)})
    IN  SubtractLevel(resp, resp[SetMax({i \in 1..Len(d) : d[i] = m})])

\* mutant: the subtraction is the wrong way round
M2_normalize_response(frequencies, resp) ==
    LET ref_level == resp[ArgMin(DistanceToReference(frequencies)) + 1]
    IN  [i \in 1..Len(resp) |-> ref_level - resp[i]]

\* FrequencyAnalyzer.normalize_response (frequencies non-empty)
normalize_response(frequencies, resp) ==
    SubtractLevel(resp, resp[ArgMin(DistanceToReference(frequencies)) + 1])

----------------------------------------------------------------------------
(* AudioAnalyzer.calculate_room_modes *)

(***************************************************************************)
(* Room dimensions are integers in half metres (the code takes the raw     *)
(* numbers as metres).  Every first-order mode is c / (2*sqrt(q)) for q     *)
(* the sum of the squares of the dimensions it uses; with dimensions in     *)
(* half metres that is SPEED_OF_SOUND / sqrt(S), S the sum of the squares   *)
(* in half metres.  A mode is held as S: the frequency falls as S grows,    *)
(* and two modes have the same frequency exactly when they have the same S. *)
(***************************************************************************)
SPEED_OF_SOUND == 343      \* c = 343.0
MODE_LO == 20              \* 20 <= m
MODE_HI == 300             \* m <= 300
MODE_CAP == 8              \* modes[:8]

\* room_data.get(key, 0)
DictGet(d, key, default) == IF key \in DOMAIN d THEN d[key] ELSE default

\* mutant: no filtering to the 20-300 Hz range
M_InModeRange(S) == TRUE

\* 20 <= m <= 300 for m = SPEED_OF_SOUND / sqrt(S)
InModeRange(S) ==
    /\ MODE_LO * MODE_LO * S <= SPEED_OF_SOUND * SPEED_OF_SOUND
    /\ SPEED_OF_SOUND * SPEED_OF_SOUND <= MODE_HI * MODE_HI * S

\* frequency of mode a <= frequency of mode b
FreqLE(a, b) == a >= b

\* sorted(): ascending in frequency
RECURSIVE InsertSorted(_, _)
InsertSorted(sorted, m) ==
    IF sorted = <<>> THEN <<m>>
    ELSE IF FreqLE(Head(sorted), m) THEN <<Head(sorted)>> \o InsertSorted(Tail(sorted), m)
    ELSE <<m>> \o sorted

RECURSIVE Sorted(_)
Sorted(s) == IF s = <<>> THEN <<>> ELSE InsertSorted(Sorted(SubSeq(s, 1, Len(s) - 1)), s[Len(s)])

\* the candidate modes, in the order the code appends them
CandidateModes(length, width, height) ==
    (IF length > 0 THEN <<length * length>> ELSE <<>>)
    \o (IF width > 0 THEN <<width * width>> ELSE <<>>)
    \o (IF height > 0 THEN <<height * height>> ELSE <<>>)
    \o (IF length > 0 /\ width > 0 THEN <<length * length + width * width>> ELSE <<>>)
    \o (IF length > 0 /\ height > 0 THEN <<length * length + height * height>> ELSE <<>>)
    \o (IF width > 0 /\ height > 0 THEN <<width * width + height * height>> ELSE <<>>)
    \o (IF length > 0 /\ width > 0 /\ height > 0
          THEN <<length * length + width * width + height * height>> ELSE <<>>)

\* AudioAnalyzer.calculate_room_modes for numeric dimensions
calculate_room_modes(room_data) ==
    LET length == DictGet(room_data, "room_length", 0)
        width == DictGet(room_data, "room_width", 0)
        height == DictGet(room_data, "room_height", 0)
    IN  IF length = 0 \/ width = 0 \/ height = 0 THEN <<>>
        ELSE LET modes == Sorted(SelectSeq(CandidateModes(length, width, height),
                                           InModeRange))
             IN  SubSeq(modes, 1, Min2(MODE_CAP, Len(modes)))

----------------------------------------------------------------------------
(* AudioAnalyzer.analyze and the steps it calls *)

PEAK_PROMINENCE == 6       \* find_peaks(..., prominence=6, ...)
PEAK_DISTANCE == 20        \* find_peaks(..., distance=20)
PEAK_MODE_HI == 300        \* frequencies[peak] < 300
PEAK_MODE_CAP == 5         \* room_modes[:5]
REDUCE_TARGET == 1000      \* analyze: len(frequencies) // 1000

\* texts of the exceptions analyze() turns into an error map
LibrosaLoadMsg == "librosa.load failed"
EmptyFftMsg == "Invalid number of FFT data points (0) specified."
FindPeaksNameMsg == "name 'find_peaks' is not defined"

\* float(frequencies[i]) of a bin: the exact ratio numerator / denominator in Hz
Hz(num, den) == <<num, den>>

\* magnitude profiles the FFT of a recording may yield, by 0-based bin: level,
\* one resonance, several resonances of which one is close to a stronger
\* one and one rises less than 6 dB above its surroundings, and seven
\* resonances 25 bins apart
BasicShapes == {"flat", "spike", "spikes", "comb"}
BasicShapeDb(shape, k) ==
    IF shape = "flat" THEN -3
    ELSE IF shape = "comb" THEN (IF k % 25 = 2 /\ k < 175 THEN 20 ELSE 0)
    ELSE IF k = 2 THEN 20
    ELSE IF shape = "spike" THEN 0
    ELSE IF k = 10 THEN 14
    ELSE IF k = 40 THEN 17
    ELSE IF k = 60 THEN 4
    ELSE 0

\* AudioAnalyzer.perform_fft for a non-empty recording (np.fft.rfft raises on
\* an empty one): the bin frequencies as numerators over len(audio), and the
\* magnitudes in dB
perform_fft(audio, sample_rate, shape) ==
    <<rfftfreq(Len(audio), sample_rate),
      [i \in 1..(Len(audio) \div 2 + 1) |-> BasicShapeDb(shape, i - 1)]>>

\* the ascending sequence of the elements of a finite set of integers
RECURSIVE SortedSeq(_)
SortedSeq(S) ==
    IF S = {} THEN <<>> ELSE <<SetMin(S)>> \o SortedSeq(S \ {SetMin(S)})

\* last index of the run of equal values that starts at index a
RECURSIVE PlateauEnd(_, _)
PlateauEnd(x, a) ==
    IF a = Len(x) \/ x[a + 1] # x[a] THEN a ELSE PlateauEnd(x, a + 1)

\* scipy _local_maxima_1d: the middle of every run of equal values that is
\* higher than both of its neighbours; the first and the last sample never
\* count (1-based indices)
LocalMaxima(x) ==
    {(a + PlateauEnd(x, a)) \div 2 :
        a \in {b \in 2..(Len(x) - 1) :
                 /\ x[b - 1] < x[b]
                 /\ PlateauEnd(x, b) < Len(x)
                 /\ x[PlateauEnd(x, b) + 1] < x[b]}}

\* scipy _select_by_peak_distance: peaks are kept from the highest down, and a
\* kept peak removes every peak closer than distance to it.  Equal heights are
\* taken from the right, as numpy's argsort orders short arrays.
RECURSIVE SelectByDistance(_, _, _)
SelectByDistance(peaks, x, distance) ==
    IF peaks = {} THEN {}
    ELSE LET best == CHOOSE p \in peaks :
                        \A q \in peaks : x[q] < x[p] \/ (x[q] = x[p] /\ q <= p)
         IN  {best} \cup SelectByDistance({q \in peaks : Abs(q - best) >= distance},
                                          x, distance)

\* scipy peak_prominences: the height of a peak above the higher of the two
\* lowest points between it and the next higher sample (or the end) on either
\* side
Prominence(x, p) ==
    LET left == SetMax({0} \cup {i \in 1..(p - 1) : x[i] > x[p]})
        right == SetMin({Len(x) + 1} \cup {i \in (p + 1)..Len(x) : x[i] > x[p]})
    IN  x[p] - Max2(SetMin({x[i] : i \in (left + 1)..p}),
                    SetMin({x[i] : i \in p..(right - 1)}))

\* scipy.signal.find_peaks(x, prominence=..., distance=...): the distance
\* condition is applied before the prominence condition; 0-based indices,
\* ascending
find_peaks(x, prominence, distance) ==
    LET kept == {p \in SelectByDistance(LocalMaxima(x), x, distance) :
                   Prominence(x, p) >= prominence}
    IN  SortedSeq({p - 1 : p \in kept})

\* mutant: every peak is reported, whatever its frequency
M_ModesBelowLimit(frequencies, den, peaks) ==
    [i \in 1..Len(peaks) |-> Hz(frequencies[peaks[i] + 1], den)]

\* the frequencies of the given bins that are below 300 Hz, in bin order
ModesBelowLimit(frequencies, den, peaks) ==
    LET below == SelectSeq(peaks, LAMBDA p : frequencies[p + 1] < PEAK_MODE_HI * den)
    IN  [i \in 1..Len(below) |-> Hz(frequencies[below[i] + 1], den)]

\* AudioAnalyzer.detect_room_modes
detect_room_modes(frequencies, den, magnitudes) ==
    LET room_modes == ModesBelowLimit(frequencies, den,
                                      find_peaks(magnitudes, PEAK_PROMINENCE, PEAK_DISTANCE))
    IN  SubSeq(room_modes, 1, Min2(PEAK_MODE_CAP, Len(room_modes)))

\* 20 <= frequencies[i] <= 20000 on a numerator over den
InAudibleBand(f, den) == AUDIBLE_LO * den <= f /\ f <= AUDIBLE_HI * den

\* the pairs <<frequency, magnitude>> as the entries of frequency_data
FrequencyData(points, den) ==
    [i \in 1..Len(points) |->
        [frequency |-> Hz(points[i][1], den), magnitude |-> points[i][2]]]

\* the bins i = 0, step, 2*step, ... as pairs <<frequency, magnitude>>
EveryNth(frequencies, calibrated, step) ==
    [i \in 1..((Len(frequencies) + step - 1) \div step) |->
        <<frequencies[(i - 1) * step + 1], calibrated[(i - 1) * step + 1]>>]

\* analyze: every step-th bin, those of the audible band kept
ReduceToBand(frequencies, den, calibrated) ==
    FrequencyData(SelectSeq(EveryNth(frequencies, calibrated,
                                     Max2(1, Len(frequencies) \div REDUCE_TARGET)),
                            LAMBDA pt : InAudibleBand(pt[1], den)),
                  den)

\* `if room_data:` -- None is false, a dict with keys is true
Truthy(room_data) == ~IsNone(room_data)

\* analyze, after a successful FFT.  With room data the theoretical modes are
\* calculated and detect_room_modes_enhanced is entered, whose first use of
\* find_peaks finds no such name at module level (only detect_room_modes
\* imports it, locally): the NameError ends in the error map.
AnalyzeSpectrum(frequencies, magnitudes, den, sample_rate, room_data) ==
    IF Truthy(room_data)
      THEN [error |-> <<FindPeaksNameMsg>>]
      ELSE [sample_rate |-> sample_rate,
            frequency_data |-> ReduceToBand(frequencies, den, magnitudes),
            rt60 |-> <<1, 2>>,
            room_modes |-> detect_room_modes(frequencies, den, magnitudes)]

\* mutant: the FFT is taken outside the try block, so its exception escapes
M_analyze(audio, sample_rate, shape, room_data) ==
    IF Len(audio) = 0 THEN [raised |-> "ValueError"]
    ELSE AnalyzeSpectrum(perform_fft(audio, sample_rate, shape)[1],
                         perform_fft(audio, sample_rate, shape)[2],
                         Len(audio), sample_rate, room_data)

\* AudioAnalyzer.analyze once the file is loaded: the map it returns
analyze(audio, sample_rate, shape, room_data) ==
    IF Len(audio) = 0 THEN [error |-> <<EmptyFftMsg>>]
    ELSE AnalyzeSpectrum(perform_fft(audio, sample_rate, shape)[1],
                         perform_fft(audio, sample_rate, shape)[2],
                         Len(audio), sample_rate, room_data)

----------------------------------------------------------------------------
(* main(): inputs *)

SignalIds == {"sine_sweep_20_20k", "does_not_exist"}
SampleRates == {32, 8000, 44100}
Recordings == SeqsOf({1}, 0, MaxRecLen)

\* command lines: too few arguments, without and with an output file
Argvs ==
    {<<"analyze_audio.py">>, <<"analyze_audio.py", "rec.wav">>}
    \cup {<<"analyze_audio.py", "rec.wav", s>> : s \in SignalIds}
    \cup {<<"analyze_audio.py", "rec.wav", s, "out.json">> : s \in SignalIds}

\* texts of the messages the program builds
UsageMsg == "Usage: python analyze_audio.py <recorded_file> <signal_id> [output_file]"
FailedPrefix == "Sweep deconvolution failed: "
UnknownSignalMsg == "Unknown or invalid signal ID: "
LoadFailedMsg == "Failed to load recorded file "
EmptyArgmaxMsg == "attempt to get an argmax of an empty sequence"
EmptyArgminMsg == "attempt to get an argmin of an empty sequence"
WriteFailedMsg == "Failed to write output file: "

\* states of the output file
NoFile == [state |-> "absent"]
TruncatedFile == [state |-> "truncated"]
WrittenFile(obj) == [state |-> "written", json |-> obj]

\* analyze(): inputs.  Recordings of 0, 1, 8 and 4410 samples (the last gives
\* more than 2000 bins, so the reduction step is 2), with or without room data
AudioLens == {0, 1, 8, 4410}
AnalyzeRates == {8000, 44100}
RoomArgs ==
    {None,
     [room_length |-> 12, room_width |-> 16, room_height |-> 10],
     [room_length |-> 0, room_width |-> 0, room_height |-> 0],
     [room_length |-> -2, room_width |-> 2]}

\* a run is either the command line or a call of AudioAnalyzer().analyze
Init ==
    /\ \/ /\ argv \in Argvs
          /\ pc = "start"
          /\ call = None
       \/ /\ argv = <<>>
          /\ pc = "analyze"
          /\ call \in [filepath : {"rec.wav"}, room_data : RoomArgs]
    /\ steps = <<>>
    /\ ref_manager = None
    /\ loads = 0
    /\ analyzer = None
    /\ recorded_file = ""
    /\ signal_id = ""
    /\ output_file = ""
    /\ ref_data = None
    /\ recorded = <<>>
    /\ sr = 0
    /\ impulse_response = <<>>
    /\ impulse_windowed = <<>>
    /\ freqs = <<>>
    /\ response_db = <<>>
    /\ smooth_response = <<>>
    /\ final_response = <<>>
    /\ result = None
    /\ stdout = <<>>
    /\ out_file = NoFile
    /\ exit_code = -1
    /\ ret = <<>>

\* mutant: the handler adds the error to a result that keeps a result field
M_Caught(msg) ==
    /\ result' = [error |-> <<FailedPrefix>> \o msg, analysis_type |-> "sweep_deconvolution"]
    /\ pc' = "output"

\* main, `except Exception as e`: the exception raised inside the try block
\* becomes the error result and control continues at the output stage
Caught(msg) ==
    /\ result' = [error |-> <<FailedPrefix>> \o msg]
    /\ pc' = "output"

\* main: len(sys.argv) < 3
Usage ==
    /\ pc = "start"
    /\ Len(argv) < 3
    /\ stdout' = Append(stdout, [error |-> <<UsageMsg>>])
    /\ exit_code' = 1
    /\ pc' = "done"
    /\ UNCHANGED <<call, ret, argv, steps, ref_manager, loads, analyzer, recorded_file, signal_id,
                   output_file, ref_data, recorded, sr, impulse_response,
                   impulse_windowed, freqs, response_db, smooth_response,
                   final_response, result, out_file>>

\* main: argument parsing
ParseArgs ==
    /\ pc = "start"
    /\ Len(argv) >= 3
    /\ recorded_file' = argv[2]
    /\ signal_id' = argv[3]
    /\ output_file' = IF Len(argv) > 3 THEN argv[4] ELSE ""
    /\ pc' = "construct"
    /\ UNCHANGED <<call, ret, argv, steps, ref_manager, loads, analyzer, ref_data, recorded, sr,
                   impulse_response, impulse_windowed, freqs, response_db,
                   smooth_response, final_response, result, stdout, out_file,
                   exit_code>>

\* mutant: the analyzer is configured with 1/3 octave smoothing
M_NewFrequencyAnalyzer ==
    [fft_size |-> FFT_SIZE, smoothing_den |-> 3, reference_freq |-> REFERENCE_FREQ]

\* FrequencyAnalyzer.__init__
NewFrequencyAnalyzer ==
    [fft_size |-> FFT_SIZE, smoothing_den |-> SMOOTHING_DEN,
     reference_freq |-> REFERENCE_FREQ]

\* main: analyzer = FrequencyAnalyzer(), which calls get_reference_manager():
\* the registry is constructed when the module global is still None
InitAnalyzer ==
    /\ pc = "construct"
    /\ IF IsNone(ref_manager)
         THEN /\ ref_manager' \in Registries
              /\ loads' = loads + 1
         ELSE UNCHANGED <<ref_manager, loads>>
    /\ analyzer' = NewFrequencyAnalyzer
    /\ pc' = "lookup"
    /\ UNCHANGED <<call, ret, argv, steps, recorded_file, signal_id, output_file, ref_data,
                   recorded, sr, impulse_response, impulse_windowed, freqs,
                   response_db, smooth_response, final_response, result, stdout,
                   out_file, exit_code>>

\* analyze_sweep_deconvolution, step 1: reference lookup
Step1Lookup ==
    /\ pc = "lookup"
    /\ steps' = Append(steps, "lookup")
    /\ ref_data' = get_signal_data(ref_manager, signal_id)
    /\ IF IsNone(ref_data')
         THEN Caught(<<"ValueError", UnknownSignalMsg, signal_id>>)
         ELSE /\ pc' = "load"
              /\ UNCHANGED result
    /\ UNCHANGED <<call, ret, argv, ref_manager, loads, analyzer, recorded_file, signal_id,
                   output_file, recorded, sr, impulse_response, impulse_windowed,
                   freqs, response_db, smooth_response, final_response, stdout,
                   out_file, exit_code>>

\* analyze_sweep_deconvolution, step 2: librosa.load of the recording; any
\* exception is re-raised as ValueError
Step2Load ==
    /\ pc = "load"
    /\ steps' = Append(steps, "load")
    /\ \/ /\ recorded' \in Recordings
          /\ sr' \in SampleRates
          /\ pc' = "deconvolve"
          /\ UNCHANGED result
       \/ /\ Caught(<<"ValueError", LoadFailedMsg, recorded_file>>)
          /\ UNCHANGED <<recorded, sr>>
    /\ UNCHANGED <<call, ret, argv, ref_manager, loads, analyzer, recorded_file, signal_id,
                   output_file, ref_data, impulse_response, impulse_windowed, freqs,
                   response_db, smooth_response, final_response, stdout, out_file,
                   exit_code>>

\* analyze_sweep_deconvolution, step 3
Step3Deconvolve ==
    /\ pc = "deconvolve"
    /\ steps' = Append(steps, "deconvolve")
    /\ impulse_response' = deconvolve_signals(recorded, ref_data.inverse_signal)
    /\ pc' = "window"
    /\ UNCHANGED <<call, ret, argv, ref_manager, loads, analyzer, recorded_file, signal_id,
                   output_file, ref_data, recorded, sr, impulse_windowed, freqs,
                   response_db, smooth_response, final_response, result, stdout,
                   out_file, exit_code>>

\* analyze_sweep_deconvolution, step 4: np.argmax raises on an empty impulse
Step4Window ==
    /\ pc = "window"
    /\ steps' = Append(steps, "window")
    /\ IF Len(impulse_response) = 0
         THEN /\ Caught(<<"ValueError", EmptyArgmaxMsg>>)
              /\ UNCHANGED impulse_windowed
         ELSE /\ impulse_windowed' = extract_impulse_window(impulse_response, sr)
              /\ pc' = "spectrum"
              /\ UNCHANGED result
    /\ UNCHANGED <<call, ret, argv, ref_manager, loads, analyzer, recorded_file, signal_id,
                   output_file, ref_data, recorded, sr, impulse_response, freqs,
                   response_db, smooth_response, final_response, stdout, out_file,
                   exit_code>>

\* analyze_sweep_deconvolution, step 5
Step5Spectrum ==
    /\ pc = "spectrum"
    /\ steps' = Append(steps, "spectrum")
    /\ \E shape \in Shapes :
         /\ freqs' = Column(impulse_to_frequency_response(
                                impulse_windowed, sr, analyzer.fft_size, shape), 1)
         /\ response_db' = Column(impulse_to_frequency_response(
                                impulse_windowed, sr, analyzer.fft_size, shape), 2)
    /\ pc' = "smooth"
    /\ UNCHANGED <<call, ret, argv, ref_manager, loads, analyzer, recorded_file, signal_id,
                   output_file, ref_data, recorded, sr, impulse_response,
                   impulse_windowed, smooth_response, final_response, result,
                   stdout, out_file, exit_code>>

\* analyze_sweep_deconvolution, step 6
Step6Smooth ==
    /\ pc = "smooth"
    /\ steps' = Append(steps, "smooth")
    /\ \E shape \in Shapes :
         smooth_response' = apply_fractional_octave_smoothing(freqs, response_db, shape)
    /\ pc' = "normalize"
    /\ UNCHANGED <<call, ret, argv, ref_manager, loads, analyzer, recorded_file, signal_id,
                   output_file, ref_data, recorded, sr, impulse_response,
                   impulse_windowed, freqs, response_db, final_response, result,
                   stdout, out_file, exit_code>>

\* analyze_sweep_deconvolution, step 7 and return: np.argmin raises on an
\* empty grid (no bin inside the audible band)
Step7Normalize ==
    /\ pc = "normalize"
    /\ steps' = Append(steps, "normalize")
    /\ IF Len(freqs) = 0
         THEN /\ Caught(<<"ValueError", EmptyArgminMsg>>)
              /\ UNCHANGED final_response
         ELSE /\ final_response' = normalize_response(freqs, smooth_response)
              /\ pc' = "format"
              /\ UNCHANGED result
    /\ UNCHANGED <<call, ret, argv, ref_manager, loads, analyzer, recorded_file, signal_id,
                   output_file, ref_data, recorded, sr, impulse_response,
                   impulse_windowed, freqs, response_db, smooth_response, stdout,
                   out_file, exit_code>>

\* mutant: the stride aims at 300 points
M_Downsample(frequencies, resp) ==
    LET step == Max2(1, Len(frequencies) \div 300)
        f == Stride(frequencies, step)
        m == Stride(resp, step)
    IN  [i \in 1..Min2(Len(f), Len(m)) |->
            [frequency |-> Hz(f[i], FFT_SIZE), magnitude |-> m[i]]]

\* main: step = max(1, len(frequencies) // 800) and the zip of the two strided arrays
Downsample(frequencies, resp) ==
    LET step == Max2(1, Len(frequencies) \div DOWNSAMPLE_TARGET)
        f == Stride(frequencies, step)
        m == Stride(resp, step)
    IN  [i \in 1..Min2(Len(f), Len(m)) |->
            [frequency |-> Hz(f[i], FFT_SIZE), magnitude |-> m[i]]]

\* main: the result dict of a successful analysis.  rt60 0.5 is held as the
\* pair <<numerator, denominator>>.
SuccessResult(frequency_data, an, sig) ==
    [frequency_data |-> frequency_data,
     analysis_type |-> "sweep_deconvolution",
     smoothing |-> "1/12 octave",
     fft_size |-> an.fft_size,
     reference |-> sig,
     rt60 |-> <<1, 2>>,
     room_modes |-> <<>>]

\* mutant: the result is built from the smoothed, not the normalized, response
M_FormatResult ==
    /\ pc = "format"
    /\ steps' = Append(steps, "downsample")
    /\ result' = SuccessResult(Downsample(freqs, smooth_response), analyzer, signal_id)
    /\ pc' = "output"
    /\ UNCHANGED <<call, ret, argv, ref_manager, loads, analyzer, recorded_file, signal_id,
                   output_file, ref_data, recorded, sr, impulse_response,
                   impulse_windowed, freqs, response_db, smooth_response,
                   final_response, stdout, out_file, exit_code>>

\* main: down-sampling for the frontend and construction of the result
FormatResult ==
    /\ pc = "format"
    /\ steps' = Append(steps, "downsample")
    /\ result' = SuccessResult(Downsample(freqs, final_response), analyzer, signal_id)
    /\ pc' = "output"
    /\ UNCHANGED <<call, ret, argv, ref_manager, loads, analyzer, recorded_file, signal_id,
                   output_file, ref_data, recorded, sr, impulse_response,
                   impulse_windowed, freqs, response_db, smooth_response,
                   final_response, stdout, out_file, exit_code>>

\* main: output to the file (open or write may raise) or to stdout
Output ==
    /\ pc = "output"
    /\ IF output_file # ""
         THEN \/ /\ out_file' = WrittenFile(result)
                 /\ pc' = "finish"
                 /\ UNCHANGED <<stdout, exit_code>>
              \/ /\ out_file' \in {NoFile, TruncatedFile}
                 /\ stdout' = Append(stdout, [error |-> <<WriteFailedMsg>>])
                 /\ exit_code' = 1
                 /\ pc' = "done"
         ELSE /\ stdout' = Append(stdout, result)
              /\ pc' = "finish"
              /\ UNCHANGED <<out_file, exit_code>>
    /\ UNCHANGED <<call, ret, argv, steps, ref_manager, loads, analyzer, recorded_file, signal_id,
                   output_file, ref_data, recorded, sr, impulse_response,
                   impulse_windowed, freqs, response_db, smooth_response,
                   final_response, result>>

\* mutant: the error check before exit is missing
M_Finish ==
    /\ pc = "finish"
    /\ exit_code' = 0
    /\ pc' = "done"
    /\ UNCHANGED <<call, ret, argv, steps, ref_manager, loads, analyzer, recorded_file, signal_id,
                   output_file, ref_data, recorded, sr, impulse_response,
                   impulse_windowed, freqs, response_db, smooth_response,
                   final_response, result, stdout, out_file>>

\* main: exit status after the output stage
Finish ==
    /\ pc = "finish"
    /\ exit_code' = IF "error" \in DOMAIN result THEN 1 ELSE 0
    /\ pc' = "done"
    /\ UNCHANGED <<call, ret, argv, steps, ref_manager, loads, analyzer, recorded_file, signal_id,
                   output_file, ref_data, recorded, sr, impulse_response,
                   impulse_windowed, freqs, response_db, smooth_response,
                   final_response, result, stdout, out_file>>

\* AudioAnalyzer.analyze: librosa.load raises, or yields a recording whose
\* analysis is returned; every exception becomes {"error": str(e)}
CallAnalyze ==
    /\ pc = "analyze"
    /\ \/ /\ ret' = <<[error |-> <<LibrosaLoadMsg>>]>>
          /\ UNCHANGED <<recorded, sr, freqs, response_db>>
       \/ \E n \in AudioLens, rate \in AnalyzeRates, shape \in BasicShapes :
            /\ recorded' = [i \in 1..n |-> 1]
            /\ sr' = rate
            /\ freqs' = IF n = 0 THEN <<>> ELSE perform_fft(recorded', rate, shape)[1]
            /\ response_db' = IF n = 0 THEN <<>> ELSE perform_fft(recorded', rate, shape)[2]
            /\ ret' = <<analyze(recorded', rate, shape, call.room_data)>>
    /\ pc' = "returned"
    /\ UNCHANGED <<call, argv, steps, ref_manager, loads, analyzer, recorded_file,
                   signal_id, output_file, ref_data, impulse_response,
                   impulse_windowed, smooth_response,
                   final_response, result, stdout, out_file, exit_code>>

Next ==
    \/ Usage
    \/ ParseArgs
    \/ InitAnalyzer
    \/ Step1Lookup
    \/ Step2Load
    \/ Step3Deconvolve
    \/ Step4Window
    \/ Step5Spectrum
    \/ Step6Smooth
    \/ Step7Normalize
    \/ FormatResult
    \/ Output
    \/ Finish
    \/ CallAnalyze

Spec == Init /\ [][Next]_vars

----------------------------------------------------------------------------
(* Function harnesses: a function of the program is called on every input   *)
(* of a bounded set; the variables of main() are not used.                  *)

mainVars == <<argv, steps, ref_manager, loads, analyzer, recorded_file, signal_id,
              output_file, ref_data, recorded, sr, impulse_response,
              impulse_windowed, freqs, response_db, smooth_response, final_response,
              result, stdout, out_file, exit_code>>

MainUnused ==
    /\ argv = <<>> /\ steps = <<>> /\ ref_manager = None /\ loads = 0
    /\ analyzer = None /\ recorded_file = "" /\ signal_id = "" /\ output_file = ""
    /\ ref_data = None /\ recorded = <<>> /\ sr = 0 /\ impulse_response = <<>>
    /\ impulse_windowed = <<>> /\ freqs = <<>> /\ response_db = <<>>
    /\ smooth_response = <<>> /\ final_response = <<>> /\ result = None
    /\ stdout = <<>> /\ out_file = NoFile /\ exit_code = -1

\* normalize_response: grids of 1 to MaxGrid frequencies around 1 kHz, in any
\* order and with repetitions, and a response of the same length
NormGridHz == {997, 999, 1000, 1001}
NormLevels == {-2, 0, 3}

InitNorm ==
    /\ MainUnused
    /\ pc = "norm"
    /\ \E n \in 1..MaxGrid :
         call \in [frequencies : [1..n -> {hz * FFT_SIZE : hz \in NormGridHz}],
                   response_db : [1..n -> NormLevels]]
    /\ ret = <<>>

NormalizeOnce ==
    /\ pc = "norm"
    /\ ret' = <<normalize_response(call.frequencies, call.response_db)>>
    /\ pc' = "normalized"
    /\ UNCHANGED <<call, mainVars>>

NormalizeTwice ==
    /\ pc = "normalized"
    /\ ret' = Append(ret, normalize_response(call.frequencies, ret[1]))
    /\ pc' = "renormalized"
    /\ UNCHANGED <<call, mainVars>>

NextNorm == NormalizeOnce \/ NormalizeTwice

SpecNorm == InitNorm /\ [][NextNorm]_vars

\* calculate_room_modes: every room whose three dimensions are each missing or
\* an integer number of half metres from -1 to MaxDim
RoomKeys == {"room_length", "room_width", "room_height"}
RoomDatas ==
    UNION {[K -> -1..MaxDim] : K \in SUBSET RoomKeys}

InitModes ==
    /\ MainUnused
    /\ pc = "modes"
    /\ call \in [room_data : RoomDatas]
    /\ ret = <<>>

CalculateRoomModes ==
    /\ pc = "modes"
    /\ ret' = <<calculate_room_modes(call.room_data)>>
    /\ pc' = "modes_done"
    /\ UNCHANGED <<call, mainVars>>

NextModes == CalculateRoomModes

SpecModes == InitModes /\ [][NextModes]_vars

\* calculate_room_modes on any Python value.  A value is None, a number
\* [num |-> n], a string [text |-> t] or a dict [dict |-> items] of such values.
PyNum(n) == [num |-> n]
PyText(t) == [text |-> t]
PyDict(items) == [dict |-> items]
IsNum(v) == DOMAIN v = {"num"}
IsDict(v) == DOMAIN v = {"dict"}

\* bool(v): None, 0 and the empty string are false
PyTruthy(v) ==
    IF IsNone(v) THEN FALSE
    ELSE IF IsNum(v) THEN v.num # 0
    ELSE v.text # ""

\* outcomes of a block of code: a returned value or a raised exception
Return(v) == [returned |-> v]
Raise(e) == [raised |-> e]
Raised(o) == DOMAIN o = {"raised"}

\* the try block of calculate_room_modes: a value without .get raises
\* AttributeError; all([length, width, height]) tests truthiness only; once all
\* three are truthy each is compared with 0, which raises TypeError on a string
RoomModesTry(room_data) ==
    IF ~IsDict(room_data) THEN Raise("AttributeError")
    ELSE LET length == DictGet(room_data.dict, "room_length", PyNum(0))
             width == DictGet(room_data.dict, "room_width", PyNum(0))
             height == DictGet(room_data.dict, "room_height", PyNum(0))
         IN  IF ~(PyTruthy(length) /\ PyTruthy(width) /\ PyTruthy(height))
               THEN Return(<<>>)
             ELSE IF ~(IsNum(length) /\ IsNum(width) /\ IsNum(height))
               THEN Raise("TypeError")
             ELSE Return(calculate_room_modes([room_length |-> length.num,
                                               room_width |-> width.num,
                                               room_height |-> height.num]))

\* calculate_room_modes with its handler: `except Exception: return []`
RoomModesCall(room_data) ==
    IF Raised(RoomModesTry(room_data)) THEN Return(<<>>) ELSE RoomModesTry(room_data)

\* dimensions in half metres, strings and None as dimension values, and
\* arguments that are no dict
PyDimNums == {-2, 0, 2, 3}
PyDimValues == {PyNum(n) : n \in PyDimNums} \cup {PyText("3"), PyText(""), None}
PyRoomInputs ==
    {PyDict(items) : items \in UNION {[K -> PyDimValues] : K \in SUBSET RoomKeys}}
    \cup {None, PyNum(5), PyText("10x12x8")}

InitRoomInput ==
    /\ MainUnused
    /\ pc = "room_input"
    /\ call \in [room_data : PyRoomInputs]
    /\ ret = <<>>

CalculateRoomModesOnInput ==
    /\ pc = "room_input"
    /\ ret' = <<RoomModesCall(call.room_data)>>
    /\ pc' = "room_output"
    /\ UNCHANGED <<call, mainVars>>

NextRoomInput == CalculateRoomModesOnInput

SpecRoomInput == InitRoomInput /\ [][NextRoomInput]_vars

\* ReferenceSignalManager(): construction entry by entry, then one lookup.
\* The catalogue is the program's, or the program's with a second entry (to
\* have an entry beside a failing one); each of the two files of an entry is
\* loadable, missing or undecodable.
FileStates == {"ok", "missing", "undecodable"}
CatalogueOrders == {<<"sine_sweep_20_20k">>, <<"sine_sweep_20_20k", "second_signal">>}
LookupIds == {"sine_sweep_20_20k", "second_signal", "does_not_exist"}
RequiredKeys == {"sweep_fft", "inverse_fft", "sweep_signal", "inverse_signal", "sample_rate"}

Range(seq) == {seq[i] : i \in 1..Len(seq)}

\* d[key] = value on a dict
DictPut(d, key, value) ==
    [k \in DOMAIN d \cup {key} |-> IF k = key THEN value ELSE d[k]]

\* the try block of _load_cache for one entry: the two librosa.load calls in
\* order, then the cache entry
LoadEntryTry(files) ==
    IF files.sweep # "ok" THEN Raise("sweep")
    ELSE IF files.inverse # "ok" THEN Raise("inverse")
    ELSE Return(CacheEntry(RefSweep, RefInverse, RefSampleRate))

\* ReferenceSignalManager.validate_signal
validate_signal(manager, id) ==
    IF IsNone(get_signal_data(manager, id)) THEN FALSE
    ELSE RequiredKeys \subseteq DOMAIN get_signal_data(manager, id)

\* the ids of the catalogue that _load_cache has not reached yet, in order
Unloaded(order, manager) ==
    SelectSeq(order, LAMBDA id : id \notin DOMAIN manager.fft_cache)

registryUnused == <<argv, steps, loads, analyzer, recorded_file, signal_id,
                    output_file, ref_data, recorded, sr, impulse_response,
                    impulse_windowed, freqs, response_db, smooth_response,
                    final_response, result, stdout, out_file, exit_code>>

InitRegistry ==
    /\ argv = <<>> /\ steps = <<>> /\ loads = 0
    /\ analyzer = None /\ recorded_file = "" /\ signal_id = "" /\ output_file = ""
    /\ ref_data = None /\ recorded = <<>> /\ sr = 0 /\ impulse_response = <<>>
    /\ impulse_windowed = <<>> /\ freqs = <<>> /\ response_db = <<>>
    /\ smooth_response = <<>> /\ final_response = <<>> /\ result = None
    /\ stdout = <<>> /\ out_file = NoFile /\ exit_code = -1
    /\ pc = "load_cache"
    /\ \E order \in CatalogueOrders :
         /\ call \in [order : {order},
                      files : [Range(order) -> [sweep : FileStates, inverse : FileStates]]]
         /\ ref_manager = [signals |-> Range(order), fft_cache |-> <<>>]
    /\ ret = <<>>

\* mutant: a failed load is not caught and ends the construction
M_LoadCacheEntry ==
    /\ pc = "load_cache"
    /\ LET id == Head(Unloaded(call.order, ref_manager))
           outcome == LoadEntryTry(call.files[id])
       IN  IF Raised(outcome)
             THEN /\ pc' = "construction_failed"
                  /\ UNCHANGED ref_manager
             ELSE /\ ref_manager' = [ref_manager EXCEPT
                                       !.fft_cache = DictPut(@, id, outcome.returned)]
                  /\ pc' = IF Len(Unloaded(call.order, ref_manager)) = 1
                             THEN "constructed" ELSE "load_cache"
    /\ UNCHANGED <<call, ret, registryUnused>>

\* _load_cache: one iteration of the loop over self.signals; an exception of
\* the loads sets the entry to None and the loop goes on
LoadCacheEntry ==
    /\ pc = "load_cache"
    /\ LET id == Head(Unloaded(call.order, ref_manager))
           outcome == LoadEntryTry(call.files[id])
       IN  ref_manager' = [ref_manager EXCEPT
                            !.fft_cache = DictPut(@, id, IF Raised(outcome) THEN None
                                                         ELSE outcome.returned)]
    /\ pc' = IF Len(Unloaded(call.order, ref_manager)) = 1 THEN "constructed" ELSE "load_cache"
    /\ UNCHANGED <<call, ret, registryUnused>>

\* a caller looks an id up in the constructed registry and validates it
LookupSignal ==
    /\ pc = "constructed"
    /\ \E id \in LookupIds :
         ret' = <<[signal_id |-> id,
                  data |-> get_signal_data(ref_manager, id),
                  valid |-> validate_signal(ref_manager, id)]>>
    /\ pc' = "looked_up"
    /\ UNCHANGED <<call, ref_manager, registryUnused>>

NextRegistry == LoadCacheEntry \/ LookupSignal

SpecRegistry == InitRegistry /\ [][NextRegistry]_vars

\* extract_impulse_window on impulses of up to MaxImpulse samples at sample
\* rates so low that the window is shorter than the impulse.  np.argmax raises
\* ValueError on an empty impulse.
WindowRates == {2, 3, 5, 10, 20, 32}
WindowSamples == {-2, 0, 1}

InitWindow ==
    /\ MainUnused
    /\ pc = "window"
    /\ call \in [impulse : SeqsOf(WindowSamples, 0, MaxImpulse), sample_rate : WindowRates]
    /\ ret = <<>>

ExtractImpulseWindow ==
    /\ pc = "window"
    /\ ret' = <<IF Len(call.impulse) = 0 THEN Raise("ValueError")
                ELSE Return(extract_impulse_window(call.impulse, call.sample_rate))>>
    /\ pc' = "windowed"
    /\ UNCHANGED <<call, mainVars>>

NextWindow == ExtractImpulseWindow

SpecWindow == InitWindow /\ [][NextWindow]_vars

\* AudioAnalyzer.calibration_curve: the knots <<frequency in Hz, correction>>,
\* the corrections in half dB (the table has one value of -3.5 dB)
calibration_curve ==
    <<<<20, 24>>, <<50, 6>>, <<100, 0>>, <<200, 0>>, <<500, 0>>, <<1000, 0>>,
      <<2000, -2>>, <<5000, -4>>, <<8000, -6>>, <<10000, -7>>, <<12000, -8>>,
      <<16000, -4>>, <<20000, 10>>>>

\* mutant: the correction of the knot below is taken, without interpolation
M_interp(x, curve) ==
    IF x < curve[1][1] THEN <<curve[1][2], 2>>
    ELSE IF x >= curve[Len(curve)][1] THEN <<curve[Len(curve)][2], 2>>
    ELSE LET j == SetMax({k \in 1..(Len(curve) - 1) : curve[k][1] <= x})
         IN  <<curve[j][2], 2>>

\* np.interp(x, xp, fp) for one x: the end values outside the knots, and
\* slope * (x - xp[j]) + fp[j] on the segment that starts at the last knot
\* xp[j] <= x.  The value in dB is the exact ratio <<numerator, denominator>>.
interp(x, curve) ==
    IF x < curve[1][1] THEN <<curve[1][2], 2>>
    ELSE IF x >= curve[Len(curve)][1] THEN <<curve[Len(curve)][2], 2>>
    ELSE LET j == SetMax({k \in 1..(Len(curve) - 1) : curve[k][1] <= x})
         IN  <<curve[j][2] * (curve[j + 1][1] - curve[j][1])
                 + (curve[j + 1][2] - curve[j][2]) * (x - curve[j][1]),
               2 * (curve[j + 1][1] - curve[j][1])>>

\* magnitude + correction, for a whole number of dB and a ratio
AddCorrection(magnitude, correction) ==
    <<magnitude * correction[2] + correction[1], correction[2]>>

\* AudioAnalyzer.apply_calibration
apply_calibration(frequencies, magnitudes) ==
    [i \in 1..Len(magnitudes) |->
        AddCorrection(magnitudes[i], interp(frequencies[i], calibration_curve))]

\* frequencies in Hz at, between, below and above the knots, in any order,
\* with magnitudes in dB
CalFrequencies == {10, 20, 35, 50, 150, 1000, 1500, 9000, 10000, 11000, 18000, 20000, 25000}
CalMagnitudes == {-2, 0, 3}

InitCalibration ==
    /\ MainUnused
    /\ pc = "calibrate"
    /\ \E n \in 0..MaxCalLen :
         call \in [frequencies : [1..n -> CalFrequencies], magnitudes : [1..n -> CalMagnitudes]]
    /\ ret = <<>>

ApplyCalibration ==
    /\ pc = "calibrate"
    /\ ret' = <<apply_calibration(call.frequencies, call.magnitudes)>>
    /\ pc' = "calibrated"
    /\ UNCHANGED <<call, mainVars>>

NextCalibration == ApplyCalibration

SpecCalibration == InitCalibration /\ [][NextCalibration]_vars

\* Concurrent callers: every thread runs FrequencyAnalyzer(), that is
\* get_reference_manager(), and then looks a signal up.  Here pc, analyzer,
\* signal_id and ref_data hold one value per thread, ret the instance a thread
\* has constructed and not yet stored; ref_manager is the module global
\* _ref_manager and loads counts the constructions.  An instance carries the
\* serial number of its construction as its identity.  The interpreter may
\* switch threads between any two of the steps (the constructor does file
\* input).
Threads == 1..MaxThreads

threadsUnused == <<argv, steps, recorded_file, output_file, recorded, sr,
                   impulse_response, impulse_windowed, freqs, response_db,
                   smooth_response, final_response, result, stdout, out_file,
                   exit_code>>

InitThreads ==
    /\ argv = <<>> /\ steps = <<>> /\ recorded_file = "" /\ output_file = ""
    /\ recorded = <<>> /\ sr = 0 /\ impulse_response = <<>>
    /\ impulse_windowed = <<>> /\ freqs = <<>> /\ response_db = <<>>
    /\ smooth_response = <<>> /\ final_response = <<>> /\ result = None
    /\ stdout = <<>> /\ out_file = NoFile /\ exit_code = -1
    /\ pc = [t \in Threads |-> "check"]
    /\ ref_manager = None
    /\ loads = 0
    /\ analyzer = [t \in Threads |-> None]
    /\ signal_id \in [Threads -> SignalIds]
    /\ ref_data = [t \in Threads |-> None]
    /\ call \in [registry : Registries]
    /\ ret = [t \in Threads |-> None]

\* get_reference_manager: `if _ref_manager is None`
CheckGlobal(t) ==
    /\ pc[t] = "check"
    /\ pc' = [pc EXCEPT ![t] = IF IsNone(ref_manager) THEN "construct" ELSE "return"]
    /\ UNCHANGED <<ref_manager, loads, analyzer, signal_id, ref_data, call, ret, threadsUnused>>

\* get_reference_manager: ReferenceSignalManager()
ConstructManager(t) ==
    /\ pc[t] = "construct"
    /\ loads' = loads + 1
    /\ ret' = [ret EXCEPT ![t] = [instance |-> loads + 1,
                                  signals |-> call.registry.signals,
                                  fft_cache |-> call.registry.fft_cache]]
    /\ pc' = [pc EXCEPT ![t] = "store"]
    /\ UNCHANGED <<ref_manager, analyzer, signal_id, ref_data, call, threadsUnused>>

\* get_reference_manager: `_ref_manager = ...`
StoreGlobal(t) ==
    /\ pc[t] = "store"
    /\ ref_manager' = ret[t]
    /\ pc' = [pc EXCEPT ![t] = "return"]
    /\ UNCHANGED <<loads, analyzer, signal_id, ref_data, call, ret, threadsUnused>>

\* get_reference_manager: `return _ref_manager`, and FrequencyAnalyzer.__init__
\* keeping it in self.ref_manager
ReturnGlobal(t) ==
    /\ pc[t] = "return"
    /\ analyzer' = [analyzer EXCEPT ![t] = [ref_manager |-> ref_manager,
                                            fft_size |-> FFT_SIZE,
                                            smoothing_den |-> SMOOTHING_DEN,
                                            reference_freq |-> REFERENCE_FREQ]]
    /\ pc' = [pc EXCEPT ![t] = "lookup"]
    /\ UNCHANGED <<ref_manager, loads, signal_id, ref_data, call, ret, threadsUnused>>

\* analyze_sweep_deconvolution, step 1, on the thread's own analyzer: the
\* registry is only read
ThreadLookup(t) ==
    /\ pc[t] = "lookup"
    /\ ref_data' = [ref_data EXCEPT ![t] = get_signal_data(analyzer[t].ref_manager,
                                                          signal_id[t])]
    /\ pc' = [pc EXCEPT ![t] = "done"]
    /\ UNCHANGED <<ref_manager, loads, analyzer, signal_id, call, ret, threadsUnused>>

NextThreads ==
    \E t \in Threads :
        \/ CheckGlobal(t)
        \/ ConstructManager(t)
        \/ StoreGlobal(t)
        \/ ReturnGlobal(t)
        \/ ThreadLookup(t)

SpecThreads == InitThreads /\ [][NextThreads]_vars

----------------------------------------------------------------------------
(* Properties of the command-line run (specification Spec) *)

\* the JSON objects the run has delivered: those printed, then the one in the
\* output file once it is completely written
Emitted == stdout \o (IF out_file.state = "written" THEN <<out_file.json>> ELSE <<>>)

ResultFields == {"frequency_data", "analysis_type", "smoothing", "fft_size",
                 "reference", "rt60", "room_modes"}

IsErrorObject(o) == DOMAIN o = {"error"}
IsResultObject(o) == DOMAIN o = ResultFields

\* the steps of a run in which no step raised
FullSteps == <<"lookup", "load", "deconvolve", "window", "spectrum", "smooth",
               "normalize", "downsample">>

\* the registry has no usable entry for the requested signal
LookupMisses ==
    \/ signal_id \notin DOMAIN ref_manager.fft_cache
    \/ IsNone(ref_manager.fft_cache[signal_id])

\* C1: a signal id that is missing from the registry or marked absent ends the
\* analysis with the unknown-signal error raised by the lookup step, before
\* the recording is loaded or any later step runs, and nothing delivered
\* carries a result field.
C1_UnknownSignalFailsAtLookup ==
    (pc \notin {"start", "construct", "lookup"} /\ ~IsNone(ref_manager) /\ LookupMisses)
    => /\ pc \in {"output", "finish", "done"}
       /\ result = [error |-> <<FailedPrefix, "ValueError", UnknownSignalMsg, signal_id>>]
       /\ steps = <<"lookup">>
       /\ recorded = <<>> /\ sr = 0
       /\ impulse_response = <<>> /\ impulse_windowed = <<>>
       /\ freqs = <<>> /\ final_response = <<>>
       /\ \A i \in 1..Len(Emitted) : DOMAIN Emitted[i] \cap ResultFields = {}

C1_Witness ==
    /\ pc = "done"
    /\ signal_id = "does_not_exist"
    /\ steps = <<"lookup">>
    /\ Len(Emitted) = 1
    /\ Emitted[1] = [error |-> <<FailedPrefix, "ValueError", UnknownSignalMsg, "does_not_exist">>]

\* C2 (as claimed): a recording with fewer samples than the reference sweep
\* ends in an error and produces no result.
C2_ShortRecordingRejected ==
    (pc = "done" /\ Len(steps) >= 2 /\ Len(recorded) < Len(ref_data.sweep_signal))
    => /\ "error" \in DOMAIN result
       /\ \A i \in 1..Len(Emitted) : IsErrorObject(Emitted[i])

\* the complete result of AudioAnalyzer.analyze
IsBasicResult(o) == DOMAIN o = {"sample_rate", "frequency_data", "rt60", "room_modes"}

\* C3: every delivered object is either an error object with no other field
\* or a complete result without an error; a finished run has delivered
\* exactly one object, and it is an error object whenever a step failed.
\* The same holds for the one map a call of AudioAnalyzer.analyze returns.
C3_ErrorOrResultNeverBoth ==
    /\ \A i \in 1..Len(Emitted) : IsErrorObject(Emitted[i]) \/ IsResultObject(Emitted[i])
    /\ IsNone(result) \/ IsErrorObject(result) \/ IsResultObject(result)
    /\ pc = "done" => Len(Emitted) = 1
    /\ (pc = "done" /\ steps # FullSteps) => IsErrorObject(Emitted[1])
    /\ pc = "returned" => /\ Len(ret) = 1
                          /\ IsErrorObject(ret[1]) \/ IsBasicResult(ret[1])

C3_Witness ==
    /\ pc = "done"
    /\ steps = <<"lookup", "load", "deconvolve", "window", "spectrum", "smooth", "normalize">>
    /\ Len(freqs) = 0
    /\ out_file.state = "written"
    /\ IsErrorObject(out_file.json)

\* C4: the exit code is 0 exactly when every step succeeded and the result
\* object was delivered; every other finished run exits with 1.
C4_ExitCodeZeroIffDelivered ==
    /\ pc # "done" => exit_code = -1
    /\ pc = "done" =>
         /\ exit_code \in {0, 1}
         /\ exit_code = 0 <=>
              /\ steps = FullSteps
              /\ \E i \in 1..Len(Emitted) : IsResultObject(Emitted[i])

C4_Witness ==
    /\ pc = "done"
    /\ exit_code = 1
    /\ steps = FullSteps
    /\ IsResultObject(result)
    /\ out_file.state = "truncated"

C4_WitnessSuccess ==
    /\ pc = "done"
    /\ exit_code = 0
    /\ out_file.state = "written"

SmoothingTag(den) ==
    CASE den = 12 -> "1/12 octave"
      [] den = 3 -> "1/3 octave"
      [] OTHER -> "other"

InBandAscending(fd) ==
    /\ \A i \in 1..Len(fd) :
         /\ AUDIBLE_LO * fd[i].frequency[2] <= fd[i].frequency[1]
         /\ fd[i].frequency[1] <= AUDIBLE_HI * fd[i].frequency[2]
    /\ \A i \in 1..(Len(fd) - 1) :
         /\ fd[i].frequency[2] = fd[i + 1].frequency[2]
         /\ fd[i].frequency[1] < fd[i + 1].frequency[1]

\* C7: in a successful result every frequency lies in [20, 20000] Hz and the
\* frequencies are strictly ascending, also after the down-sampling; so it is
\* for the sweep analysis and for the result of AudioAnalyzer.analyze.
C7_FrequenciesInBandAscending ==
    /\ IsResultObject(result) => InBandAscending(result.frequency_data)
    /\ (pc = "returned" /\ IsBasicResult(ret[1])) => InBandAscending(ret[1].frequency_data)

C7_Witness ==
    /\ pc = "done"
    /\ IsResultObject(result)
    /\ sr = 8000
    /\ Len(freqs) > Len(result.frequency_data)
    /\ Len(result.frequency_data) > 800

----------------------------------------------------------------------------
(* Properties of normalize_response (specification SpecNorm) *)

\* the first index whose frequency is nearest to 1 kHz
NearestToReference(f) ==
    CHOOSE i \in 1..Len(f) :
        /\ \A j \in 1..Len(f) :
             Abs(f[i] - REFERENCE_FREQ * FFT_SIZE) <= Abs(f[j] - REFERENCE_FREQ * FFT_SIZE)
        /\ \A j \in 1..(i - 1) :
             Abs(f[i] - REFERENCE_FREQ * FFT_SIZE) < Abs(f[j] - REFERENCE_FREQ * FFT_SIZE)

\* C8: after normalization the element at the first index nearest to 1 kHz is
\* 0, every element has been reduced by the response at that index, and all
\* differences between elements are as before.
C8_NormalizedAtReference ==
    pc = "normalized"
    => LET r == call.response_db
           out == ret[1]
           istar == NearestToReference(call.frequencies)
       IN  /\ Len(out) = Len(r)
           /\ out[istar] = 0
           /\ \A i \in 1..Len(r) : out[i] = r[i] - r[istar]
           /\ \A i, j \in 1..Len(r) : out[i] - out[j] = r[i] - r[j]

C8_Witness ==
    /\ pc = "normalized"
    /\ call.frequencies = <<997 * FFT_SIZE, 1001 * FFT_SIZE, 999 * FFT_SIZE>>
    /\ call.response_db = <<0, 3, -2>>
    /\ ret[1] = <<-3, 0, -5>>

\* C9: normalizing a normalized response changes nothing.
C9_NormalizeIdempotent ==
    pc = "renormalized" => ret[2] = ret[1]

C9_Witness ==
    /\ pc = "renormalized"
    /\ ret[1] # call.response_db
    /\ ret[2] = ret[1]
    /\ \E i \in 1..Len(ret[1]) : ret[1][i] # 0

----------------------------------------------------------------------------
(* Properties of calculate_room_modes (specification SpecModes) *)

DimensionsOf(room_data) ==
    <<DictGet(room_data, "room_length", 0),
      DictGet(room_data, "room_width", 0),
      DictGet(room_data, "room_height", 0)>>

\* the sorted in-range candidates whose dimensions are all positive, capped
ModesOfPositiveDimensions(dims) ==
    LET modes == Sorted(SelectSeq(CandidateModes(dims[1], dims[2], dims[3]), InModeRange))
    IN  SubSeq(modes, 1, Min2(MODE_CAP, Len(modes)))

\* C11 (as claimed): a dimension of zero suppresses only the modes that use
\* it: the returned list is made of exactly the axial, tangential and oblique
\* candidates all of whose dimensions are positive, so a room with only a
\* width yields its width axial mode.
C11_ZeroSuppressesOnlyItsModes ==
    pc = "modes_done"
    => ret[1] = ModesOfPositiveDimensions(DimensionsOf(call.room_data))

----------------------------------------------------------------------------
(* Properties of the room modes of a result (specification Spec) *)

\* no room record, or a record whose three dimensions are all zero
NoRoomDimensions(room_data) ==
    IsNone(room_data) \/ DimensionsOf(room_data) = <<0, 0, 0>>

----------------------------------------------------------------------------
(* Properties of calculate_room_modes on any input (specification           *)
(* SpecRoomInput)                                                           *)

\* the value of a dimension, 0 when the key is missing
DimensionValue(room_data, key) == DictGet(room_data.dict, key, PyNum(0))

\* a room record that is no map, lacks a key, or holds a value that is no
\* number or is negative
Malformed(room_data) ==
    \/ ~IsDict(room_data)
    \/ \E key \in RoomKeys :
         \/ key \notin DOMAIN room_data.dict
         \/ ~IsNum(room_data.dict[key])
         \/ (IsNum(room_data.dict[key]) /\ room_data.dict[key].num < 0)

\* C13 (as claimed): the room-mode calculator never raises, and for every
\* malformed input (no map, a missing key, a non-numeric or a negative
\* dimension) it returns the empty list.
C13_MalformedGivesEmptyList ==
    pc = "room_output"
    => /\ ~Raised(ret[1])
       /\ Malformed(call.room_data) => ret[1] = Return(<<>>)

----------------------------------------------------------------------------
(* Properties of AudioAnalyzer.analyze (specification Spec) *)

\* C14 (as claimed): a recording that analyze processes without error when
\* no room data is given (it was loaded and its FFT taken) is processed
\* without error with any room data: the map returned has no error key and
\* has the frequency_data, rt60 and sample_rate of the analysis without room
\* data.
C14_RoomDataNeverCausesError ==
    (pc = "returned" /\ Len(freqs) > 0)
    => /\ IsBasicResult(ret[1])
       /\ ret[1].frequency_data = ReduceToBand(freqs, Len(recorded), response_db)
       /\ ret[1].rt60 = <<1, 2>>
       /\ ret[1].sample_rate = sr

----------------------------------------------------------------------------
(* Properties of the registry construction (specification SpecRegistry) *)

\* both files of the catalogue entry can be loaded
Loadable(id) == call.files[id].sweep = "ok" /\ call.files[id].inverse = "ok"

\* C15: the construction of the registry always completes; an entry whose
\* sweep or inverse file fails to load is marked absent while every other
\* entry is loaded, and looking a failed id up gives what looking up an id
\* outside the catalogue gives: no data, and validation fails.
C15_ConstructionCompletes ==
    /\ pc \in {"load_cache", "constructed", "looked_up"}
    /\ ref_manager.signals = Range(call.order)
    /\ pc # "load_cache" => DOMAIN ref_manager.fft_cache = ref_manager.signals
    /\ \A id \in DOMAIN ref_manager.fft_cache :
         ref_manager.fft_cache[id] =
            IF Loadable(id) THEN CacheEntry(RefSweep, RefInverse, RefSampleRate) ELSE None
    /\ pc = "looked_up" =>
         /\ (ret[1].signal_id \notin ref_manager.signals \/ ~Loadable(ret[1].signal_id))
            => (ret[1].data = None /\ ret[1].valid = FALSE)
         /\ (ret[1].signal_id \in ref_manager.signals /\ Loadable(ret[1].signal_id))
            => (ret[1].data = CacheEntry(RefSweep, RefInverse, RefSampleRate)
                /\ ret[1].valid = TRUE)

C15_Witness ==
    /\ pc = "looked_up"
    /\ call.order = <<"sine_sweep_20_20k", "second_signal">>
    /\ call.files["sine_sweep_20_20k"] = [sweep |-> "ok", inverse |-> "undecodable"]
    /\ ret[1].signal_id = "sine_sweep_20_20k"
    /\ ret[1].data = None
    /\ ~IsNone(ref_manager.fft_cache["second_signal"])

----------------------------------------------------------------------------
(* Properties of the shared registry (specification SpecThreads) *)

\* C16 (as claimed): under any interleaving of concurrent callers the
\* registry is constructed at most once, every caller that has obtained the
\* registry holds the same instance, which is the global one, and the
\* contents of every instance stay as constructed.
C16_RegistryBuiltOnce ==
    /\ loads <= 1
    /\ \A t \in Threads :
         ~IsNone(analyzer[t]) =>
            /\ analyzer[t].ref_manager = ref_manager
            /\ analyzer[t].ref_manager.signals = call.registry.signals
            /\ analyzer[t].ref_manager.fft_cache = call.registry.fft_cache
    /\ \A t, u \in Threads :
         (~IsNone(analyzer[t]) /\ ~IsNone(analyzer[u]))
         => analyzer[t].ref_manager.instance = analyzer[u].ref_manager.instance

----------------------------------------------------------------------------
(* Properties of extract_impulse_window (specification SpecWindow) *)

\* 0-based index of the first sample of largest absolute value
FirstPeak(impulse) ==
    (CHOOSE i \in 1..Len(impulse) :
        /\ \A j \in 1..Len(impulse) : Abs(impulse[j]) <= Abs(impulse[i])
        /\ \A j \in 1..(i - 1) : Abs(impulse[j]) < Abs(impulse[i])) - 1

\* the window is impulse[max(0, p - pre) : min(len, p + post)] for the first
\* peak p, and has at most pre + post samples
WindowIs(window, impulse, pre, post) ==
    LET p == FirstPeak(impulse)
        start == IF p - pre > 0 THEN p - pre ELSE 0
        end == IF p + post < Len(impulse) THEN p + post ELSE Len(impulse)
    IN  /\ Len(window) = end - start
        /\ \A i \in 1..Len(window) : window[i] = impulse[start + i]
        /\ Len(window) <= pre + post

----------------------------------------------------------------------------
(* Properties of the down-sampling of main() (specification Spec) *)

----------------------------------------------------------------------------
(* Outcomes of AudioAnalyzer.analyze (specification Spec) *)

\* a step of the call failed: the file could not be loaded, it holds no
\* samples to transform, or the detection with room data was entered
AnalyzeStepFailed ==
    sr = 0 \/ Len(recorded) = 0 \/ ~IsNone(call.room_data)

\* C19: AudioAnalyzer.analyze always returns one map.  When the file cannot
\* be loaded or a step fails the map has the single key error; otherwise it
\* has exactly the keys sample_rate, frequency_data, rt60 and room_modes, and
\* sample_rate is the rate of the file.
C19_AnalyzeOutcomesDisjoint ==
    pc = "returned"
    => /\ Len(ret) = 1
       /\ IF AnalyzeStepFailed
            THEN DOMAIN ret[1] = {"error"}
            ELSE /\ DOMAIN ret[1] = {"sample_rate", "frequency_data", "rt60", "room_modes"}
                 /\ ret[1].sample_rate = sr

C19_Witness ==
    /\ pc = "returned"
    /\ IsNone(call.room_data)
    /\ sr = 44100
    /\ Len(recorded) = 4410
    /\ DOMAIN ret[1] = {"sample_rate", "frequency_data", "rt60", "room_modes"}
    /\ ret[1].sample_rate = 44100
    /\ Len(ret[1].frequency_data) = 1000

----------------------------------------------------------------------------
(* Properties of apply_calibration (specification SpecCalibration) *)

\* what was added to a magnitude, in half dB times the denominator of the
\* calibrated value
AddedHalfDb(calibrated, magnitude) == 2 * (calibrated[1] - magnitude * calibrated[2])

\* C20: apply_calibration returns one value for every input value, in the
\* same order, each the magnitude plus a correction: the value of the knot
\* at a frequency that is a knot, and between two adjacent knots the value
\* on the straight line through them.
C20_CalibrationInterpolates ==
    pc = "calibrated"
    => /\ Len(ret[1]) = Len(call.magnitudes)
       /\ \A i \in 1..Len(ret[1]) :
            /\ ret[1][i][2] > 0
            /\ \A j \in 1..Len(calibration_curve) :
                 call.frequencies[i] = calibration_curve[j][1]
                 => AddedHalfDb(ret[1][i], call.magnitudes[i])
                      = calibration_curve[j][2] * ret[1][i][2]
            /\ \A j \in 1..(Len(calibration_curve) - 1) :
                 (/\ calibration_curve[j][1] <= call.frequencies[i]
                  /\ call.frequencies[i] <= calibration_curve[j + 1][1])
                 => AddedHalfDb(ret[1][i], call.magnitudes[i])
                       * (calibration_curve[j + 1][1] - calibration_curve[j][1])
                    = ret[1][i][2]
                       * (calibration_curve[j][2]
                             * (calibration_curve[j + 1][1] - calibration_curve[j][1])
                          + (calibration_curve[j + 1][2] - calibration_curve[j][2])
                             * (call.frequencies[i] - calibration_curve[j][1]))

C20_Witness ==
    /\ pc = "calibrated"
    /\ call.frequencies = <<1500, 20>>
    /\ call.magnitudes = <<0, 3>>
    /\ ret[1][1][1] * 2 = -1 * ret[1][1][2]
    /\ ret[1][2][1] = 15 * ret[1][2][2]

====
